---- MODULE Spec2Model ----
(***************************************************************************)
(* Docker Management API (backend/app): the archive export pipeline, the   *)
(* log stream relay and the resource listing/control adapter, local        *)
(* (docker SDK / CLI subprocess) and remote (commands over SSH).           *)
(***************************************************************************)
EXTENDS Integers, Sequences, FiniteSets, TLC

\* ------------------------------------------------------------------ bounds
\* Concurrent export requests.
NRequests == 2
\* Names the system temp area can hand out (tempfile.mkstemp / mkdtemp).
NPaths == 2
\* Longest image list an export request sees.
MaxImages == 2
\* Reads a log stream makes from its source before the source ends.
MaxReads == 3
\* Containers, images, volumes a control plane can hold (ids 1..NIds).
NIds == 1
\* Longest output of a remote listing command, in lines.
MaxLines == 2
\* Longest container id `docker run -d` prints, in characters.
MaxIdLen == 14
\* Characters of a short container id: container_id[:12].
ShortIdLen == 12

\* Python's None for a path variable that is not set (no path is 0).
None == 0

Requests == 1..NRequests
Paths == 1..NPaths

\* ------------------------------------------------------- image references
\* An image reference is a sequence of tokens: a token is ":" or "/" or a
\* run of characters holding neither.
ImageRefs ==
    { <<"a", "/", "b", ":", "t">>,
      <<"a", "_", "b", ":", "t">> }

\* docker-py Image objects as images.list() returns them: the tags of the
\* image and its short id ("sha256:" and the first hex digits).
ImageObjs ==
    { [tags |-> <<r>>, short_id |-> <<"sha256", ":", "0">>] : r \in ImageRefs }
    \cup { [tags |-> <<>>, short_id |-> <<"sha256", ":", "1">>] }

\* str.replace(":", "_").replace("/", "_")
replace(s) ==
    [n \in DOMAIN s |-> IF s[n] \in {":", "/"} THEN "_" ELSE s[n]]

\* All sequences over S of length 0..n without repeated elements.
RECURSIVE ListsUpTo(_, _)
ListsUpTo(S, n) ==
    IF n = 0 THEN { <<>> }
    ELSE LET shorter == ListsUpTo(S, n - 1)
         IN  shorter \cup
             { Append(l, x) : l \in { m \in shorter : Len(m) = n - 1 },
                              x \in S }

NoRepeat(l) == \A a, b \in DOMAIN l : a # b => l[a] # l[b]

\* ------------------------------------------------------------------ state
VARIABLES
    fs,     \* the system temp area: path -> what is there
    req,    \* per export request: the handler's frame (locals, position,
            \* SSH client, registered background tasks, response)
    log,    \* one log-stream request: the relay, its generator, the SSH
            \* client or local stream handle, what was read and sent
    docker, \* the control planes: target -> kind -> ids that exist
    resp,   \* the response of the last listing/control request
    tmp     \* cleanup_temp_files called on its own: a temp area, the paths
            \* given, the area before the call and after the first call

exportVars == <<fs, req>>
logVars == <<log>>
controlVars == <<docker, resp>>
vars == <<fs, req, log, docker, resp, tmp>>

Absent == [kind |-> "none", owner |-> 0, members |-> {}, written |-> FALSE]

NewFile(r) == [kind |-> "file", owner |-> r, members |-> {}, written |-> FALSE]
NewDir(r) == [kind |-> "dir", owner |-> r, members |-> {}, written |-> FALSE]
\* A file that os.remove cannot remove (no permission on its directory, busy).
Locked(r) == [kind |-> "locked", owner |-> r, members |-> {}, written |-> TRUE]

\* gzip.open(path, 'wb') followed by at least one write: the file is created
\* if missing, truncated otherwise, and holds bytes.
gzip_write(f, p, r) ==
    [f EXCEPT ![p] = [kind |-> "file",
                      owner |-> IF f[p].kind = "none" THEN r ELSE f[p].owner,
                      members |-> {}, written |-> TRUE]]

\* A temp area that hands out any name, used or not.
AnyPaths == Paths

\* tempfile.mkstemp / mkdtemp create a path under a name nothing has.
FreePaths == { p \in Paths : fs[p].kind = "none" }

\* os.path.exists
exists(f, p) == p # None /\ f[p].kind # "none"

\* A cleanup that removes nothing.
cleanup_nothing(f, paths) == f

\* An unlink that removes whatever is at the path.
remove_anything(f, p) == [raised |-> "", fs |-> [f EXCEPT ![p] = Absent]]

\* os.remove(path): unlinks a file; raises OSError on a directory and on a
\* file it is not allowed to unlink, and then changes nothing.
os_remove(f, p) ==
    IF f[p].kind = "file"
    THEN [raised |-> "", fs |-> [f EXCEPT ![p] = Absent]]
    ELSE [raised |-> "OSError", fs |-> f]

\* What `except Exception` catches of what os.remove raises.
Exceptions == {"OSError"}

\* helpers.cleanup_temp_files(*paths): os.remove of every path that is set and
\* exists; what os.remove raises is swallowed (except Exception: pass).
cleanup_temp_files(f, paths) ==
    [p \in Paths |->
        IF p \in paths /\ exists(f, p) THEN os_remove(f, p).fs[p] ELSE f[p]]

\* cleanup_temp_files(*paths) raises what os.remove raised and the except
\* clause around it did not catch.
cleanup_raises(f, paths) ==
    \E p \in paths :
        exists(f, p) /\ os_remove(f, p).raised \notin Exceptions \cup {""}

\* shutil.rmtree(path, ignore_errors=True): removes a directory tree; on a
\* path that is no directory the error is ignored.
rmtree(f, d) ==
    [p \in Paths |-> IF p = d /\ f[p].kind = "dir" THEN Absent ELSE f[p]]

IdleFrame ==
    [endpoint |-> "idle", pc |-> "idle", image_name |-> <<>>,
     gz_path |-> None, tar_path |-> None, temp_dir |-> None,
     zip_path |-> None, images |-> <<>>, outcome |-> <<>>,
     background_tasks |-> <<>>, status |-> 0, path |-> None,
     client |-> "none", closes |-> 0, delivered |-> FALSE,
     no_images |-> FALSE,   \* the image list was resolved and was empty
     cancelled |-> FALSE,   \* the caller left while the file was being sent
     filename |-> <<>>]     \* FileResponse(filename=...), less its suffix

\* raise HTTPException(status_code=...) out of the handler: the error
\* response carries no file and no background task.
HTTPException(f, code) ==
    [f EXCEPT !.status = code, !.pc = "done", !.background_tasks = <<>>]

\* An exception no `except` of the handler catches: the framework answers
\* 500; no `finally` of a try block not yet entered runs.
Unhandled(f) ==
    [f EXCEPT !.status = 500, !.pc = "done", !.background_tasks = <<>>]

\* get_ssh_client's handle: client.close()
close(f) ==
    [f EXCEPT !.client = "closed", !.closes = @ + 1]

ExportInit ==
    /\ fs = [p \in Paths |-> Absent]
    /\ req = [r \in Requests |-> IdleFrame]

\* -------------------------------------------- local: download_specific_image
\* Entry: get_docker_client() and client.images.get(image_name).
download_specific_image(r) ==
    /\ UNCHANGED <<log, docker, resp, tmp>>
    /\ req[r].pc = "idle"
    /\ \E name \in ImageRefs, res \in {"ok", "ImageNotFound", "Exception"} :
         LET f == [req[r] EXCEPT !.endpoint = "download_specific_image",
                                 !.image_name = name]
         IN  req' = [req EXCEPT ![r] =
                CASE res = "ok" -> [f EXCEPT !.pc = "mkstemp"]
                  [] res = "ImageNotFound" -> HTTPException(f, 404)
                  [] OTHER -> HTTPException(f, 500)]
    /\ UNCHANGED fs

\* fd, gz_path = tempfile.mkstemp(suffix=".tar.gz"), outside the try block.
download_specific_image_mkstemp(r) ==
    /\ UNCHANGED <<log, docker, resp, tmp>>
    /\ req[r].endpoint = "download_specific_image"
    /\ req[r].pc = "mkstemp"
    /\ \/ \E p \in FreePaths :
            /\ fs' = [fs EXCEPT ![p] = NewFile(r)]
            /\ req' = [req EXCEPT ![r].gz_path = p, ![r].pc = "save"]
       \/ /\ req' = [req EXCEPT ![r] = Unhandled(@)]
          /\ UNCHANGED fs

\* The try block up to the last chunk: gzip.open(gz_path, 'wb') and the
\* image.save() chunks; on an exception the handler cleans gz_path and
\* raises 500.
download_specific_image_save(r) ==
    /\ UNCHANGED <<log, docker, resp, tmp>>
    /\ req[r].endpoint = "download_specific_image"
    /\ req[r].pc = "save"
    /\ \E ok \in BOOLEAN :
         LET p == req[r].gz_path
             wrote == gzip_write(fs, p, r)
         IN  IF ok
             THEN /\ fs' = wrote
                  /\ req' = [req EXCEPT ![r].pc = "return"]
             ELSE /\ fs' = cleanup_temp_files(wrote, {p})
                  /\ req' = [req EXCEPT ![r] = HTTPException(@, 500)]

\* background_tasks.add_task(cleanup_temp_files, gz_path);
\* safe_name = image_name.replace(":", "_").replace("/", "_");
\* return FileResponse(path=gz_path, filename=f"{safe_name}.tar.gz").
download_specific_image_return(r) ==
    /\ UNCHANGED <<log, docker, resp, tmp>>
    /\ req[r].endpoint = "download_specific_image"
    /\ req[r].pc = "return"
    /\ req' = [req EXCEPT
                 ![r].background_tasks =
                     Append(@, [fn |-> "cleanup_temp_files",
                                files |-> {req[r].gz_path}, dirs |-> {}]),
                 ![r].status = 200, ![r].path = req[r].gz_path,
                 ![r].filename = replace(req[r].image_name),
                 ![r].pc = "deliver"]
    /\ UNCHANGED fs

\* ------------------------------------------------ local: download_all_images
LocalImageLists == { l \in ListsUpTo(ImageObjs, MaxImages) : NoRepeat(l) }

\* Entry: get_docker_client() (outside the try block), then inside it
\* client.images.list() and the "No images" check. HTTPException(404) is an
\* Exception: the handler's own `except Exception` catches it, runs
\* cleanup_temp_files(None, None) and raises 500.
download_all_images(r) ==
    /\ UNCHANGED <<log, docker, resp, tmp>>
    /\ req[r].pc = "idle"
    /\ \E res \in {"ok", "DockerException", "Exception"},
          l \in LocalImageLists :
         LET f == [req[r] EXCEPT !.endpoint = "download_all_images",
                                 !.no_images = (res = "ok" /\ l = <<>>)]
         IN  req' = [req EXCEPT ![r] =
                IF res = "ok" /\ l # <<>>
                THEN [f EXCEPT !.pc = "mkstemp_tar"]
                ELSE HTTPException(f, 500)]
    /\ UNCHANGED fs

\* fd_tar, tar_path = tempfile.mkstemp(suffix=".tar")
download_all_images_mkstemp_tar(r) ==
    /\ UNCHANGED <<log, docker, resp, tmp>>
    /\ req[r].endpoint = "download_all_images"
    /\ req[r].pc = "mkstemp_tar"
    /\ \/ \E p \in FreePaths :
            /\ fs' = [fs EXCEPT ![p] = NewFile(r)]
            /\ req' = [req EXCEPT ![r].tar_path = p, ![r].pc = "mkstemp_gz"]
       \/ /\ req' = [req EXCEPT ![r] = HTTPException(@, 500)]
          /\ UNCHANGED fs

\* fd_gz, gz_path = tempfile.mkstemp(suffix=".tar.gz"); a failure is caught
\* by `except Exception`: cleanup_temp_files(vars().get('tar_path'), None).
download_all_images_mkstemp_gz(r) ==
    /\ UNCHANGED <<log, docker, resp, tmp>>
    /\ req[r].endpoint = "download_all_images"
    /\ req[r].pc = "mkstemp_gz"
    /\ \/ \E p \in FreePaths :
            /\ fs' = [fs EXCEPT ![p] = NewFile(r)]
            /\ req' = [req EXCEPT ![r].gz_path = p, ![r].pc = "save"]
       \/ /\ fs' = cleanup_temp_files(fs, {req[r].tar_path})
          /\ req' = [req EXCEPT ![r] = HTTPException(@, 500)]

\* subprocess.run(["docker", "save", "-o", tar_path, ...], check=True); a
\* CalledProcessError cleans both files and raises 500.
download_all_images_save(r) ==
    /\ UNCHANGED <<log, docker, resp, tmp>>
    /\ req[r].endpoint = "download_all_images"
    /\ req[r].pc = "save"
    /\ \E ok \in BOOLEAN :
         LET wrote == gzip_write(fs, req[r].tar_path, r)
         IN  IF ok
             THEN /\ fs' = wrote
                  /\ req' = [req EXCEPT ![r].pc = "compress"]
             ELSE /\ fs' = cleanup_temp_files(
                               wrote, {req[r].tar_path, req[r].gz_path})
                  /\ req' = [req EXCEPT ![r] = HTTPException(@, 500)]

\* shutil.copyfileobj(f_in, gzip.open(gz_path, 'wb')); any exception cleans
\* both files and raises 500.
download_all_images_compress(r) ==
    /\ UNCHANGED <<log, docker, resp, tmp>>
    /\ req[r].endpoint = "download_all_images"
    /\ req[r].pc = "compress"
    /\ \E ok \in BOOLEAN :
         LET wrote == gzip_write(fs, req[r].gz_path, r)
         IN  IF ok
             THEN /\ fs' = wrote
                  /\ req' = [req EXCEPT ![r].pc = "return"]
             ELSE /\ fs' = cleanup_temp_files(
                               wrote, {req[r].tar_path, req[r].gz_path})
                  /\ req' = [req EXCEPT ![r] = HTTPException(@, 500)]

\* background_tasks.add_task(cleanup_temp_files, tar_path, gz_path); return
\* FileResponse(path=gz_path).
download_all_images_return(r) ==
    /\ UNCHANGED <<log, docker, resp, tmp>>
    /\ req[r].endpoint = "download_all_images"
    /\ req[r].pc = "return"
    /\ req' = [req EXCEPT
                 ![r].background_tasks =
                     Append(@, [fn |-> "cleanup_temp_files",
                                files |-> {req[r].tar_path, req[r].gz_path},
                                dirs |-> {}]),
                 ![r].status = 200, ![r].path = req[r].gz_path,
                 ![r].pc = "deliver"]
    /\ UNCHANGED fs

\* ------------------------------------- local: download_all_images_individual
\* Entry: get_docker_client(), client.images.list() and the "No images"
\* check, whose HTTPException(404) the handler's `except Exception` turns
\* into 500.
download_all_images_individual(r) ==
    /\ UNCHANGED <<log, docker, resp, tmp>>
    /\ req[r].pc = "idle"
    /\ \E res \in {"ok", "DockerException", "Exception"},
          l \in LocalImageLists :
         LET f == [req[r] EXCEPT
                     !.endpoint = "download_all_images_individual",
                     !.no_images = (res = "ok" /\ l = <<>>)]
         IN  req' = [req EXCEPT ![r] =
                IF res = "ok" /\ l # <<>>
                THEN [f EXCEPT !.images = l, !.pc = "mkdtemp"]
                ELSE HTTPException(f, 500)]
    /\ UNCHANGED fs

\* temp_dir = tempfile.mkdtemp(), inside the try block.
download_all_images_individual_mkdtemp(r) ==
    /\ UNCHANGED <<log, docker, resp, tmp>>
    /\ req[r].endpoint = "download_all_images_individual"
    /\ req[r].pc = "mkdtemp"
    /\ \/ \E p \in FreePaths :
            /\ fs' = [fs EXCEPT ![p] = NewDir(r)]
            /\ req' = [req EXCEPT ![r].temp_dir = p, ![r].pc = "loop"]
       \/ /\ req' = [req EXCEPT ![r] = HTTPException(@, 500)]
          /\ UNCHANGED fs

\* image_name and safe_name of one docker-py image in the local loop.
local_image_name(img) ==
    IF img.tags # <<>> THEN img.tags[1] ELSE img.short_id

local_safe_name(img) ==
    IF img.tags # <<>> THEN replace(img.tags[1]) ELSE img.short_id

\* The files of temp_dir after the try/except of one image of the loop. A
\* file is named after safe_name and holds what image number n wrote.
\* "ok": written in full (a file of that name is overwritten); "raises": an
\* exception before gzip.open or in the middle of the writes, and the file,
\* if it exists, is removed; "nonzero": a remote `docker save` that ends with
\* a non-zero exit status after its output was read: nothing raises, the
\* file stays.
loop_members(members, name, n, res) ==
    LET others == { m \in members : m.name # name }
    IN  IF res \in {"ok", "nonzero"}
        THEN others \cup { [name |-> name, img |-> n] }
        ELSE others

\* gzip.open(os.path.join(temp_dir, ...)) raises when temp_dir is not there.
loop_result(f, d, res) == IF f[d].kind = "dir" THEN res ELSE "raises"

loop_body(f, d, name, n, res) ==
    IF f[d].kind = "dir"
    THEN [f EXCEPT ![d].members = loop_members(@, name, n, res)]
    ELSE f

\* One iteration of `for img in images`.
download_all_images_individual_loop(r) ==
    /\ UNCHANGED <<log, docker, resp, tmp>>
    /\ req[r].endpoint = "download_all_images_individual"
    /\ req[r].pc = "loop"
    /\ Len(req[r].outcome) < Len(req[r].images)
    /\ \E res \in {"ok", "raises"} :
         LET img == req[r].images[Len(req[r].outcome) + 1]
             d == req[r].temp_dir
         IN  /\ fs' = loop_body(fs, d, local_safe_name(img),
                                Len(req[r].outcome) + 1, res)
             /\ req' = [req EXCEPT ![r].outcome =
                          Append(@, [name |-> local_safe_name(img),
                                     res |-> loop_result(fs, d, res)])]

\* fd, zip_path = tempfile.mkstemp(suffix=".zip") after the loop; on a
\* failure `except Exception` removes temp_dir ('zip_path' is not in locals).
download_all_images_individual_mkstemp(r) ==
    /\ UNCHANGED <<log, docker, resp, tmp>>
    /\ req[r].endpoint = "download_all_images_individual"
    /\ req[r].pc = "loop"
    /\ Len(req[r].outcome) = Len(req[r].images)
    /\ \/ \E p \in FreePaths :
            /\ fs' = [fs EXCEPT ![p] = NewFile(r)]
            /\ req' = [req EXCEPT ![r].zip_path = p,
                                  ![r].pc = "make_archive"]
       \/ /\ fs' = rmtree(fs, req[r].temp_dir)
          /\ req' = [req EXCEPT ![r] = HTTPException(@, 500)]

\* shutil.make_archive(zip_path[:-4], 'zip', temp_dir): zip_path becomes the
\* zip of the files in temp_dir.
make_archive(f, zip, d) ==
    [f EXCEPT ![zip] = [kind |-> "file",
                        owner |-> f[zip].owner,
                        members |-> f[d].members, written |-> TRUE]]

download_all_images_individual_make_archive(r) ==
    /\ UNCHANGED <<log, docker, resp, tmp>>
    /\ req[r].endpoint = "download_all_images_individual"
    /\ req[r].pc = "make_archive"
    /\ \E ok \in BOOLEAN :
         IF ok /\ fs[req[r].temp_dir].kind = "dir"
               /\ fs[req[r].zip_path].kind = "file"
         THEN /\ fs' = make_archive(fs, req[r].zip_path, req[r].temp_dir)
              /\ req' = [req EXCEPT ![r].pc = "return"]
         ELSE /\ fs' = cleanup_temp_files(rmtree(fs, req[r].temp_dir),
                                          {req[r].zip_path})
              /\ req' = [req EXCEPT ![r] = HTTPException(@, 500)]

\* background_tasks.add_task(cleanup_all); return FileResponse(zip_path).
\* cleanup_all is rmtree(temp_dir) and cleanup_temp_files(zip_path).
download_all_images_individual_return(r) ==
    /\ UNCHANGED <<log, docker, resp, tmp>>
    /\ req[r].endpoint = "download_all_images_individual"
    /\ req[r].pc = "return"
    /\ req' = [req EXCEPT
                 ![r].background_tasks =
                     Append(@, [fn |-> "cleanup_all",
                                files |-> {req[r].zip_path},
                                dirs |-> {req[r].temp_dir}]),
                 ![r].status = 200, ![r].path = req[r].zip_path,
                 ![r].pc = "deliver"]
    /\ UNCHANGED fs

\* ------------------------------------ remote: download_remote_specific_image
\* Entry: client = get_ssh_client(conn); a failed connect raises 500 and
\* there is no client.
get_ssh_client(f, ok) ==
    IF ok THEN [f EXCEPT !.client = "open"] ELSE HTTPException(f, 500)

download_remote_specific_image(r) ==
    /\ UNCHANGED <<log, docker, resp, tmp>>
    /\ req[r].pc = "idle"
    /\ \E name \in ImageRefs, ok \in BOOLEAN :
         LET f == [req[r] EXCEPT
                     !.endpoint = "download_remote_specific_image",
                     !.image_name = name, !.pc = "mkstemp"]
         IN  req' = [req EXCEPT ![r] = get_ssh_client(f, ok)]
    /\ UNCHANGED fs

\* fd, gz_path = tempfile.mkstemp(suffix=".tar.gz") between get_ssh_client
\* and the try block: an exception here leaves the handler with neither the
\* `except` nor the `finally` of the try block run.
download_remote_specific_image_mkstemp(r) ==
    /\ UNCHANGED <<log, docker, resp, tmp>>
    /\ req[r].endpoint = "download_remote_specific_image"
    /\ req[r].pc = "mkstemp"
    /\ \/ \E p \in FreePaths :
            /\ fs' = [fs EXCEPT ![p] = NewFile(r)]
            /\ req' = [req EXCEPT ![r].gz_path = p, ![r].pc = "save"]
       \/ /\ req' = [req EXCEPT ![r] = Unhandled(@)]
          /\ UNCHANGED fs

\* The try block: exec_command("docker save ..."), the recv loop into
\* gzip.open(gz_path), recv_exit_status(). An exception or a non-zero exit
\* status cleans gz_path and raises 500; `finally` closes the client.
remote_save(r) ==
    \E res \in {"ok", "raises", "nonzero"} :
         LET p == req[r].gz_path
             wrote == gzip_write(fs, p, r)
         IN  IF res = "ok"
             THEN /\ fs' = wrote
                  /\ req' = [req EXCEPT ![r].pc = "return"]
             ELSE /\ fs' = cleanup_temp_files(wrote, {p})
                  /\ req' = [req EXCEPT
                               ![r] = close(HTTPException(@, 500))]

download_remote_specific_image_save(r) ==
    /\ UNCHANGED <<log, docker, resp, tmp>>
    /\ req[r].endpoint = "download_remote_specific_image"
    /\ req[r].pc = "save"
    /\ remote_save(r)

\* filename of the remote single-image and all-in-one responses:
\* f"remote_{safe_name}.tar.gz" and "remote_all_images.tar.gz".
remote_filename(f) ==
    IF f.endpoint = "download_remote_specific_image"
    THEN <<"remote_">> \o replace(f.image_name)
    ELSE <<"remote_all_images">>

\* background_tasks.add_task(cleanup_temp_files, gz_path); return
\* FileResponse(path=gz_path, filename=...); `finally` closes the client.
remote_return(r) ==
    /\ req' = [req EXCEPT
                 ![r] = close([@ EXCEPT
                     !.background_tasks =
                         Append(@, [fn |-> "cleanup_temp_files",
                                    files |-> {req[r].gz_path},
                                    dirs |-> {}]),
                     !.status = 200, !.path = req[r].gz_path,
                     !.filename = remote_filename(req[r]),
                     !.pc = "deliver"])]
    /\ UNCHANGED fs

download_remote_specific_image_return(r) ==
    /\ UNCHANGED <<log, docker, resp, tmp>>
    /\ req[r].endpoint = "download_remote_specific_image"
    /\ req[r].pc = "return"
    /\ remote_return(r)

\* ---------------------------------------- remote: download_remote_all_images
\* The lines `docker images --format '{{.Repository}}:{{.Tag}}'` prints: an
\* untagged image prints "<none>:<none>"; a blank line is <<>>.
RemoteLines ==
    ImageRefs \cup { <<"<none>", ":", "<none>">>, <<"none", ":", "none">>, <<>> }

\* "none:none" in line.strip()
has_none_none(line) ==
    \E n \in 1..(Len(line) - 2) :
        line[n] = "none" /\ line[n + 1] = ":" /\ line[n + 2] = "none"

\* [line.strip() for line in stdout
\*     if line.strip() and not "none:none" in line.strip()]
image_lines(stdout) ==
    SelectSeq(stdout, LAMBDA line : line # <<>> /\ ~has_none_none(line))

RemoteOutputs == ListsUpTo(RemoteLines, MaxImages)

download_remote_all_images(r) ==
    /\ UNCHANGED <<log, docker, resp, tmp>>
    /\ req[r].pc = "idle"
    /\ \E ok \in BOOLEAN :
         LET f == [req[r] EXCEPT
                     !.endpoint = "download_remote_all_images",
                     !.pc = "mkstemp"]
         IN  req' = [req EXCEPT ![r] = get_ssh_client(f, ok)]
    /\ UNCHANGED fs

download_remote_all_images_mkstemp(r) ==
    /\ UNCHANGED <<log, docker, resp, tmp>>
    /\ req[r].endpoint = "download_remote_all_images"
    /\ req[r].pc = "mkstemp"
    /\ \/ \E p \in FreePaths :
            /\ fs' = [fs EXCEPT ![p] = NewFile(r)]
            /\ req' = [req EXCEPT ![r].gz_path = p, ![r].pc = "images"]
       \/ /\ req' = [req EXCEPT ![r] = Unhandled(@)]
          /\ UNCHANGED fs

\* exec_command("docker images ...") and the list comprehension; the exit
\* status of the command is not read. No image left: raise Exception("No
\* valid images found on remote machine"), cleanup, 500, client closed.
download_remote_all_images_images(r) ==
    /\ UNCHANGED <<log, docker, resp, tmp>>
    /\ req[r].endpoint = "download_remote_all_images"
    /\ req[r].pc = "images"
    /\ \E raises \in BOOLEAN, stdout \in RemoteOutputs :
         IF ~raises /\ image_lines(stdout) # <<>>
         THEN /\ req' = [req EXCEPT ![r].pc = "save"]
              /\ UNCHANGED fs
         ELSE /\ fs' = cleanup_temp_files(fs, {req[r].gz_path})
              /\ req' = [req EXCEPT ![r] =
                    close(HTTPException(
                        [@ EXCEPT !.no_images = ~raises], 500))]

download_remote_all_images_save(r) ==
    /\ UNCHANGED <<log, docker, resp, tmp>>
    /\ req[r].endpoint = "download_remote_all_images"
    /\ req[r].pc = "save"
    /\ remote_save(r)

download_remote_all_images_return(r) ==
    /\ UNCHANGED <<log, docker, resp, tmp>>
    /\ req[r].endpoint = "download_remote_all_images"
    /\ req[r].pc = "return"
    /\ remote_return(r)

\* ----------------------------- remote: download_remote_all_images_individual
download_remote_all_images_individual(r) ==
    /\ UNCHANGED <<log, docker, resp, tmp>>
    /\ req[r].pc = "idle"
    /\ \E ok \in BOOLEAN :
         LET f == [req[r] EXCEPT
                     !.endpoint = "download_remote_all_images_individual",
                     !.pc = "mkdtemp"]
         IN  req' = [req EXCEPT ![r] = get_ssh_client(f, ok)]
    /\ UNCHANGED fs

\* temp_dir = tempfile.mkdtemp(), before the try block.
download_remote_all_images_individual_mkdtemp(r) ==
    /\ UNCHANGED <<log, docker, resp, tmp>>
    /\ req[r].endpoint = "download_remote_all_images_individual"
    /\ req[r].pc = "mkdtemp"
    /\ \/ \E p \in FreePaths :
            /\ fs' = [fs EXCEPT ![p] = NewDir(r)]
            /\ req' = [req EXCEPT ![r].temp_dir = p, ![r].pc = "mkstemp"]
       \/ /\ req' = [req EXCEPT ![r] = Unhandled(@)]
          /\ UNCHANGED fs

\* fd, zip_path = tempfile.mkstemp(suffix=".zip"), before the try block.
download_remote_all_images_individual_mkstemp(r) ==
    /\ UNCHANGED <<log, docker, resp, tmp>>
    /\ req[r].endpoint = "download_remote_all_images_individual"
    /\ req[r].pc = "mkstemp"
    /\ \/ \E p \in FreePaths :
            /\ fs' = [fs EXCEPT ![p] = NewFile(r)]
            /\ req' = [req EXCEPT ![r].zip_path = p, ![r].pc = "images"]
       \/ /\ req' = [req EXCEPT ![r] = Unhandled(@)]
          /\ UNCHANGED fs

\* The handler's `except Exception`: rmtree(temp_dir), cleanup(zip_path),
\* raise 500; `finally` closes the client.
remote_individual_except(r, no_images) ==
    /\ fs' = cleanup_temp_files(rmtree(fs, req[r].temp_dir),
                                {req[r].zip_path})
    /\ req' = [req EXCEPT ![r] =
          close(HTTPException([@ EXCEPT !.no_images = no_images], 500))]

download_remote_all_images_individual_images(r) ==
    /\ UNCHANGED <<log, docker, resp, tmp>>
    /\ req[r].endpoint = "download_remote_all_images_individual"
    /\ req[r].pc = "images"
    /\ \E raises \in BOOLEAN, stdout \in RemoteOutputs :
         IF ~raises /\ image_lines(stdout) # <<>>
         THEN /\ req' = [req EXCEPT ![r].images = image_lines(stdout),
                                    ![r].pc = "loop"]
              /\ UNCHANGED fs
         ELSE remote_individual_except(r, ~raises)

\* One iteration of `for img in images`: exec_command("docker save img")
\* and the recv loop into gzip.open(gz_path); the exit status of the command
\* is never read.
download_remote_all_images_individual_loop(r) ==
    /\ UNCHANGED <<log, docker, resp, tmp>>
    /\ req[r].endpoint = "download_remote_all_images_individual"
    /\ req[r].pc = "loop"
    /\ Len(req[r].outcome) < Len(req[r].images)
    /\ \E res \in {"ok", "raises", "nonzero"} :
         LET img == req[r].images[Len(req[r].outcome) + 1]
             d == req[r].temp_dir
         IN  /\ fs' = loop_body(fs, d, replace(img),
                                Len(req[r].outcome) + 1, res)
             /\ req' = [req EXCEPT ![r].outcome =
                          Append(@, [name |-> replace(img),
                                     res |-> loop_result(fs, d, res)])]

download_remote_all_images_individual_make_archive(r) ==
    /\ UNCHANGED <<log, docker, resp, tmp>>
    /\ req[r].endpoint = "download_remote_all_images_individual"
    /\ req[r].pc = "loop"
    /\ Len(req[r].outcome) = Len(req[r].images)
    /\ \E ok \in BOOLEAN :
         IF ok /\ fs[req[r].temp_dir].kind = "dir"
               /\ fs[req[r].zip_path].kind = "file"
         THEN /\ fs' = make_archive(fs, req[r].zip_path, req[r].temp_dir)
              /\ req' = [req EXCEPT ![r].pc = "return"]
         ELSE remote_individual_except(r, FALSE)

\* add_task(cleanup_all); return FileResponse(zip_path); finally close.
download_remote_all_images_individual_return(r) ==
    /\ UNCHANGED <<log, docker, resp, tmp>>
    /\ req[r].endpoint = "download_remote_all_images_individual"
    /\ req[r].pc = "return"
    /\ req' = [req EXCEPT
                 ![r] = close([@ EXCEPT
                     !.background_tasks =
                         Append(@, [fn |-> "cleanup_all",
                                    files |-> {req[r].zip_path},
                                    dirs |-> {req[r].temp_dir}]),
                     !.status = 200, !.path = req[r].zip_path,
                     !.pc = "deliver"])]
    /\ UNCHANGED fs

\* ------------------------------------------- the response and its aftermath
\* One registered background task run: cleanup_temp_files(*files), or
\* cleanup_all: rmtree(temp_dir) then cleanup_temp_files(zip_path).
run_task(f, task) ==
    LET g == IF task.dirs = {} THEN f
             ELSE rmtree(f, CHOOSE d \in task.dirs : TRUE)
    IN  cleanup_temp_files(g, task.files)

RECURSIVE run_tasks(_, _)
run_tasks(f, tasks) ==
    IF tasks = <<>> THEN f
    ELSE run_tasks(run_task(f, Head(tasks)), Tail(tasks))

\* The FileResponse the handler returned is sent in full; the handler's
\* locals are gone, the registered tasks hold the paths.
deliver(r) ==
    /\ UNCHANGED <<log, docker, resp, tmp>>
    /\ req[r].pc = "deliver"
    /\ req' = [req EXCEPT ![r].pc = "background", ![r].delivered = TRUE,
                          ![r].images = <<>>, ![r].outcome = <<>>,
                          ![r].gz_path = None, ![r].tar_path = None,
                          ![r].temp_dir = None, ![r].zip_path = None]
    /\ UNCHANGED fs

\* The caller disconnects while the FileResponse is being sent. The cleanup
\* is a background task of that response, which the framework runs once the
\* body has been sent; what it does with the tasks of a response whose
\* sending was cut short is not the handler's to decide. The log_api_requests
\* middleware wraps every response: depending on the framework build the
\* tasks still run, or the response task is cancelled and they never do.
cancel(r) ==
    /\ UNCHANGED <<log, docker, resp, tmp>>
    /\ req[r].pc = "deliver"
    /\ \E tasks_run \in BOOLEAN :
         req' = [req EXCEPT
                   ![r].cancelled = TRUE,
                   ![r].pc = IF tasks_run THEN "background" ELSE "done",
                   ![r].background_tasks = IF tasks_run THEN @ ELSE <<>>,
                   ![r].images = <<>>, ![r].outcome = <<>>,
                   ![r].gz_path = None, ![r].tar_path = None,
                   ![r].temp_dir = None, ![r].zip_path = None]
    /\ UNCHANGED fs

\* After the response the framework runs the request's background tasks.
background(r) ==
    /\ UNCHANGED <<log, docker, resp, tmp>>
    /\ req[r].pc = "background"
    /\ fs' = run_tasks(fs, req[r].background_tasks)
    /\ req' = [req EXCEPT ![r].pc = "done", ![r].background_tasks = <<>>]

ExportNext ==
    \E r \in Requests :
        \/ download_specific_image(r)
        \/ download_specific_image_mkstemp(r)
        \/ download_specific_image_save(r)
        \/ download_specific_image_return(r)
        \/ download_all_images(r)
        \/ download_all_images_mkstemp_tar(r)
        \/ download_all_images_mkstemp_gz(r)
        \/ download_all_images_save(r)
        \/ download_all_images_compress(r)
        \/ download_all_images_return(r)
        \/ download_all_images_individual(r)
        \/ download_all_images_individual_mkdtemp(r)
        \/ download_all_images_individual_loop(r)
        \/ download_all_images_individual_mkstemp(r)
        \/ download_all_images_individual_make_archive(r)
        \/ download_all_images_individual_return(r)
        \/ download_remote_specific_image(r)
        \/ download_remote_specific_image_mkstemp(r)
        \/ download_remote_specific_image_save(r)
        \/ download_remote_specific_image_return(r)
        \/ download_remote_all_images(r)
        \/ download_remote_all_images_mkstemp(r)
        \/ download_remote_all_images_images(r)
        \/ download_remote_all_images_save(r)
        \/ download_remote_all_images_return(r)
        \/ download_remote_all_images_individual(r)
        \/ download_remote_all_images_individual_mkdtemp(r)
        \/ download_remote_all_images_individual_mkstemp(r)
        \/ download_remote_all_images_individual_images(r)
        \/ download_remote_all_images_individual_loop(r)
        \/ download_remote_all_images_individual_make_archive(r)
        \/ download_remote_all_images_individual_return(r)
        \/ deliver(r)
        \/ cancel(r)
        \/ background(r)


\* ------------------------------------------------------------ export claims
\* The request is over: the error response was returned, or the file
\* response was delivered in full and the background tasks have run.
Finished(r) == req[r].pc = "done"

OwnedPaths(r) == { p \in Paths : fs[p].kind # "none" /\ fs[p].owner = r }

\* C1: for every export endpoint and every exit path of the handler (200,
\* or 500 after a failure at any step after a temp path was created), once
\* the response is delivered and the background tasks have run, no temporary
\* file or directory the request created still exists.
C1_NoTempPathSurvives ==
    \A r \in Requests :
        (Finished(r) /\ ~req[r].cancelled) => OwnedPaths(r) = {}

\* Images of the loop whose export did not fail / failed. A remote
\* `docker save` that ends with a non-zero exit status is a failed export.
Exported(r) ==
    { n \in DOMAIN req[r].outcome : req[r].outcome[n].res = "ok" }

Failed(r) ==
    { n \in DOMAIN req[r].outcome : req[r].outcome[n].res # "ok" }

\* The images whose files are in a directory or a zip.
WrittenBy(members) == { m.img : m \in members }

ReturnsZip(r) ==
    /\ req[r].endpoint \in {"download_all_images_individual",
                            "download_remote_all_images_individual"}
    /\ req[r].pc = "deliver"
    /\ req[r].status = 200

\* C2: an "export all, individual" request that returns a zip: the zip has
\* as many members as there are images whose export did not fail, and no
\* .tar.gz of a failed image is left in the temporary directory or the zip.
C2_ZipHoldsExactlyTheExported ==
    \A r \in Requests :
        ReturnsZip(r) =>
            /\ Cardinality(fs[req[r].zip_path].members)
                   = Cardinality(Exported(r))
            /\ Failed(r) \cap WrittenBy(fs[req[r].zip_path].members) = {}
            /\ Failed(r) \cap WrittenBy(fs[req[r].temp_dir].members) = {}

LocalExportAll == {"download_all_images", "download_all_images_individual"}

\* C12: an "export all images" request made when the image list is empty
\* fails with the "no images" outcome, 404 on the local target, creates no
\* archive, and leaves no temporary file behind.
C12_NoImagesIsNotFound ==
    \A r \in Requests :
        req[r].no_images =>
            /\ req[r].status # 200
            /\ req[r].endpoint \in LocalExportAll => req[r].status = 404
            /\ OwnedPaths(r) = {}

\* C14: the temp paths of an export request are cleaned up on every exit
\* path, caller cancellation included: when the caller disconnects while
\* the archive is being delivered, the request still ends with its temp
\* file(s) and temp directory removed.
C14_CleanupOnCancellation ==
    \A r \in Requests :
        (Finished(r) /\ req[r].cancelled) => OwnedPaths(r) = {}

\* A name that holds neither ':' nor '/'.
FilesystemSafe(name) == \A n \in DOMAIN name : name[n] \notin {":", "/"}

\* C16: every archive member name and download file name an export
\* produces is the image reference with ':' and '/' replaced by '_', so it
\* holds neither character; this for the download name of the single-image
\* export and for each member of the individual-zip export (an untagged
\* image is named by its short identifier).
C16_NamesAreFilesystemSafe ==
    /\ \A r \in Requests : FilesystemSafe(req[r].filename)
    /\ \A p \in Paths : \A m \in fs[p].members : FilesystemSafe(m.name)

\* The paths the request has handed to its post-response cleanup hook.
RECURSIVE TaskPaths(_)
TaskPaths(tasks) ==
    IF tasks = <<>> THEN {}
    ELSE Head(tasks).files \cup Head(tasks).dirs \cup TaskPaths(Tail(tasks))

Registered(r) == TaskPaths(req[r].background_tasks)

\* C17: each temporary path of an export job is registered with the
\* post-response cleanup hook when it is created, before any byte is
\* written to it (or any file into it): no path of a request holds
\* anything while it is not registered.
C17_RegisteredBeforeAnyWrite ==
    \A p \in Paths :
        (fs[p].kind # "none" /\ (fs[p].written \/ fs[p].members # {})) =>
            p \in Registered(fs[p].owner)

\* The handler has returned: a response or an error left it.
Returned(r) == req[r].pc \in {"deliver", "background", "done"}

\* The handler returned a FileResponse that is still being sent.
Delivering(r) == req[r].pc = "deliver" /\ req[r].status = 200

\* The handler ended in an error response.
Errored(r) == Returned(r) /\ req[r].status \notin {0, 200}

OwnedFiles(r) == { p \in OwnedPaths(r) : fs[p].kind = "file" }

\* C18: on the success path the archive file named in the file response is
\* there, written, until the response has been sent in full (it is deleted
\* only by the background task that runs after delivery); on the failure
\* path no temp file of the request is left when the error response is
\* returned, and that response is a 500 (the only 404 is the single-image
\* export of an image that does not exist, before any temp file).
C18_FileOutlivesDeliveryOnly ==
    \A r \in Requests :
        /\ Delivering(r) =>
              /\ req[r].path \in OwnedFiles(r)
              /\ fs[req[r].path].written
        /\ Errored(r) =>
              /\ OwnedFiles(r) = {}
              /\ req[r].status = 500
                   \/ (req[r].status = 404
                         /\ req[r].endpoint = "download_specific_image"
                         /\ req[r].gz_path = None)

\* One request is delivering its archive while another, whose export failed
\* after its temp file was created, has returned its error with the file
\* gone.
C18_OneDeliversOneFailed ==
    \E r, q \in Requests :
        /\ Delivering(r)
        /\ Errored(q)
        /\ req[q].gz_path # None
        /\ fs[req[q].gz_path].kind = "none"

\* C13: a remote request opens one SSH handle of its own, and the handler
\* of a non-streaming remote endpoint has closed it exactly once when it
\* returns, on every exit path, a failure between opening the handle and
\* entering the try block (temp-file creation) included.
C13_ClientClosedOnceOnReturn ==
    \A r \in Requests :
        /\ req[r].closes <= 1
        /\ (Returned(r) /\ req[r].client # "none") =>
              (req[r].client = "closed" /\ req[r].closes = 1)

\* The request is between its first step and its last.
InFlight(r) == req[r].pc \notin {"idle", "done"}

\* The temp paths a request in flight holds: in its handler's locals, and
\* in the tasks it registered.
Holds(r) ==
    ({req[r].gz_path, req[r].tar_path, req[r].temp_dir, req[r].zip_path}
        \cup Registered(r)) \ {None}

\* The paths of requests in flight are theirs and no one else's.
PathsAreDistinct ==
    \A r \in Requests :
        InFlight(r) =>
            /\ \A p \in Holds(r) : fs[p].kind # "none" /\ fs[p].owner = r
            /\ \A q \in Requests \ {r} :
                  InFlight(q) => Holds(r) \cap Holds(q) = {}

\* A step that deletes or rewrites a path is a step of the request that
\* created it.
OnlyOwnerTouches ==
    \A p \in Paths :
        (fs[p].kind # "none" /\ fs'[p] # fs[p]) =>
            req'[fs[p].owner] # req[fs[p].owner]

\* C19: in every interleaving of concurrent export requests each request's
\* temp paths are distinct from every other request's, and no request's
\* cleanup, immediate or in the background, deletes a file or directory
\* another request created.
C19_RequestsDoNotShareTempPaths ==
    [](PathsAreDistinct) /\ [][OnlyOwnerTouches]_vars

\* Two requests are in flight at once, each holding a temp path, one of
\* them with its cleanup registered and its response being delivered.
C19_TwoRequestsInFlight ==
    \E r, q \in Requests :
        /\ r # q
        /\ InFlight(r) /\ Holds(r) # {}
        /\ req[q].pc = "deliver" /\ Registered(q) # {}

\* ======================================================== log stream relay

LocalLogEndpoints ==
    {"stream_container_stdout_logs", "stream_container_file_logs"}
RemoteLogEndpoints ==
    {"stream_remote_container_stdout_logs",
     "stream_remote_container_file_logs"}

\* What a read of the source gives: a chunk or line (the local docker SDK
\* stream may hand out an empty chunk), or the end of the stream.
Chunks == {"x", "y"}
Empty == ""
\* f"Error reading stream: {...}".encode('utf-8')
Diagnostic == "Error reading stream"

LogInit ==
    log = [endpoint |-> "idle",
           state |-> "Idle",        \* Idle, Opening, Streaming, Closed
           hist |-> <<>>,           \* the relay states entered, in order
           status |-> 0,            \* HTTP status of the response
           container |-> "unknown", \* what the target said of container_id
           client |-> "none",       \* paramiko client: none, open, closed
           closes |-> 0,            \* calls of client.close()
           handle |-> "none",       \* local docker stream: none, open, closed
           gen |-> "none",          \* log_generator(): none, created, running,
                                    \* suspended, suspended_error, done, raised
           connected |-> TRUE,      \* the HTTP client is still there
           read |-> <<>>,           \* chunks/lines read from the source
           yielded |-> <<>>,        \* chunks the generator yielded
           sent |-> <<>>,           \* chunks sent to the HTTP client
           errored |-> FALSE]       \* the source raised after streaming began

enter(l, st) == [l EXCEPT !.state = st, !.hist = Append(@, st)]

\* raise HTTPException(status_code=code) out of a log-stream handler.
log_HTTPException(l, code) == enter([l EXCEPT !.status = code], "Closed")

\* return StreamingResponse(log_generator(), media_type="text/plain"): the
\* generator object exists; none of its body has run.
StreamingResponse(l) ==
    enter([l EXCEPT !.status = 200, !.gen = "created"], "Streaming")

\* client.close() of the log-stream request's SSH client.
log_close(l) == [l EXCEPT !.client = "closed", !.closes = @ + 1]

\* Opening, first step: the handler acquires its connection,
\* get_docker_client() or get_ssh_client(conn); both raise 500 on failure.
acquire(ep) ==
    /\ UNCHANGED <<fs, req, docker, resp, tmp>>
    /\ log.state = "Idle"
    /\ \E ok \in BOOLEAN :
         LET l == enter([log EXCEPT !.endpoint = ep], "Opening")
         IN  log' = IF ~ok THEN log_HTTPException(l, 500)
                    ELSE IF ep \in RemoteLogEndpoints
                         THEN [l EXCEPT !.client = "open"]
                         ELSE l

\* local stdout: client.containers.get(container_id), then the response;
\* container.logs(...) is called in the generator body, not here.
stream_container_stdout_logs ==
    /\ UNCHANGED <<fs, req, docker, resp, tmp>>
    /\ log.state = "Opening"
    /\ log.endpoint = "stream_container_stdout_logs"
    /\ \E res \in {"ok", "NotFound", "Exception"} :
         log' = CASE res = "ok" ->
                       StreamingResponse([log EXCEPT !.container = "exists"])
                  [] res = "NotFound" ->
                       log_HTTPException(
                           [log EXCEPT !.container = "missing"], 404)
                  [] OTHER -> log_HTTPException(log, 500)

\* local file: client.containers.get(container_id), then
\* container.exec_run(["tail", ...], stream=True) in the handler.
stream_container_file_logs ==
    /\ UNCHANGED <<fs, req, docker, resp, tmp>>
    /\ log.state = "Opening"
    /\ log.endpoint = "stream_container_file_logs"
    /\ \E res \in {"ok", "NotFound", "Exception"} :
         log' = CASE res = "ok" ->
                       StreamingResponse([log EXCEPT !.container = "exists",
                                                     !.handle = "open"])
                  [] res = "NotFound" ->
                       log_HTTPException(
                           [log EXCEPT !.container = "missing"], 404)
                  [] OTHER -> log_HTTPException(log, 500)

\* remote stdout and file: client.exec_command(..., get_pty=True) starts
\* the command and returns its channels whether or not the container exists
\* (docker's "No such container" is output of the command); an exception of
\* exec_command closes the client and raises 500.
remote_open(l, exists_, raises) ==
    IF raises THEN log_HTTPException(log_close(l), 500)
    ELSE StreamingResponse(
             [l EXCEPT !.container = IF exists_ THEN "exists" ELSE "missing"])

stream_remote_container_stdout_logs ==
    /\ UNCHANGED <<fs, req, docker, resp, tmp>>
    /\ log.state = "Opening"
    /\ log.endpoint = "stream_remote_container_stdout_logs"
    /\ \E exists_ \in BOOLEAN, raises \in BOOLEAN :
         log' = remote_open(log, exists_, raises)

stream_remote_container_file_logs ==
    /\ UNCHANGED <<fs, req, docker, resp, tmp>>
    /\ log.state = "Opening"
    /\ log.endpoint = "stream_remote_container_file_logs"
    /\ \E exists_ \in BOOLEAN, raises \in BOOLEAN :
         log' = remote_open(log, exists_, raises)

\* What one read of the source can give. A local read gives a chunk, which
\* may be empty, the end of the stream, or raises; a remote
\* stdout.readline() gives a line, or "" at the end of the stream (stderr
\* then holds text or not), or raises.
LocalEvents == Chunks \cup {Empty, "eof", "raises"}
RemoteEvents == Chunks \cup {"eof", "eof_stderr", "raises"}

\* `yield chunk`: the generator is suspended at the yield; the framework
\* sends the chunk if the HTTP client is still there.
yield(l, chunk, at) ==
    [l EXCEPT !.gen = at,
              !.yielded = Append(@, chunk),
              !.sent = IF l.connected THEN Append(@, chunk) ELSE @]

\* A relay that forwards whatever it reads.
passes_everything(chunk) == TRUE

\* `if chunk:` of the local generators.
passes(chunk) == chunk # Empty

\* One read of the local log_generator body (stdout and file variants):
\*     try:
\*         for chunk in <stream>:
\*             if chunk: yield chunk
\*     except Exception as e:
\*         yield f"Error reading stream: {str(e)}".encode('utf-8')
local_log_generator(l, ev) ==
    CASE ev = "eof" ->
           enter([l EXCEPT !.gen = "done", !.handle = "closed"], "Closed")
      [] ev = "raises" ->
           yield([l EXCEPT !.errored = TRUE, !.handle = "closed"],
                 Diagnostic, "suspended_error")
      [] OTHER ->
           LET r == [l EXCEPT !.read = Append(@, ev)]
           IN  IF passes(ev) THEN yield(r, ev, "suspended") ELSE r

\* One read of the remote log_generator body (stdout and file variants):
\*     try:
\*         while True:
\*             line = stdout.readline()
\*             if not line:
\*                 err = stderr.read().decode('utf-8')
\*                 if err: yield f"Error reading stream: {err}".encode(...)
\*                 break
\*             yield line.encode('utf-8')
\*     finally:
\*         client.close()
remote_log_generator(l, ev) ==
    CASE ev = "eof" ->
           enter(log_close([l EXCEPT !.gen = "done"]), "Closed")
      [] ev = "eof_stderr" ->
           yield(l, Diagnostic, "suspended_error")
      [] ev = "raises" ->
           enter(log_close([l EXCEPT !.errored = TRUE, !.gen = "raised"]),
                 "Closed")
      [] OTHER ->
           yield([l EXCEPT !.read = Append(@, ev)], ev, "suspended")

\* The framework asks the generator for its next chunk (next(gen) in a
\* worker thread). A generator suspended at its diagnostic yield has nothing
\* left to read: the local one returns, the remote one breaks out of the
\* loop and runs `finally`.
next_chunk ==
    /\ UNCHANGED <<fs, req, docker, resp, tmp>>
    /\ log.state = "Streaming"
    /\ log.connected
    /\ log.gen \in {"created", "suspended", "suspended_error"}
    /\ log' =
         IF log.gen = "suspended_error"
         THEN IF log.endpoint \in RemoteLogEndpoints
              THEN enter(log_close([log EXCEPT !.gen = "done"]), "Closed")
              ELSE enter([log EXCEPT !.gen = "done"], "Closed")
         ELSE [log EXCEPT
                 !.gen = "running",
                 !.handle =
                     IF log.endpoint = "stream_container_stdout_logs"
                     THEN "open" ELSE @]

\* The running generator gets the result of its read of the source. The
\* read blocks until the source has something: a silent source leaves the
\* generator running.
log_generator ==
    /\ UNCHANGED <<fs, req, docker, resp, tmp>>
    /\ log.state = "Streaming"
    /\ log.gen = "running"
    /\ \/ /\ log.endpoint \in LocalLogEndpoints
          /\ \E ev \in LocalEvents :
               /\ ev \in Chunks \cup {Empty} => Len(log.read) < MaxReads
               /\ log' = local_log_generator(log, ev)
       \/ /\ log.endpoint \in RemoteLogEndpoints
          /\ \E ev \in RemoteEvents :
               /\ ev \in Chunks => Len(log.read) < MaxReads
               /\ log' = remote_log_generator(log, ev)

\* The HTTP client goes away while the response is streaming.
disconnect ==
    /\ UNCHANGED <<fs, req, docker, resp, tmp>>
    /\ log.state = "Streaming"
    /\ log.connected
    /\ log' = [log EXCEPT !.connected = FALSE]

\* After a disconnect the framework drops the generator and Python
\* finalizes it. A generator that was never started runs none of its body,
\* so no `finally`; one suspended at a yield gets GeneratorExit there:
\* `except Exception` does not catch it, `finally` runs. The local docker
\* stream is owned by the generator alone and goes with it.
finalize(l) ==
    LET closed ==
          IF l.endpoint \in RemoteLogEndpoints /\ l.gen # "created"
          THEN log_close(l) ELSE l
    IN  enter([closed EXCEPT
                 !.gen = "done",
                 !.handle = IF @ = "open" THEN "closed" ELSE @], "Closed")

drop_generator ==
    /\ UNCHANGED <<fs, req, docker, resp, tmp>>
    /\ log.state = "Streaming"
    /\ ~log.connected
    /\ log.gen \in {"created", "suspended", "suspended_error"}
    /\ log' = finalize(log)

LogNext ==
    \/ \E ep \in LocalLogEndpoints \cup RemoteLogEndpoints : acquire(ep)
    \/ stream_container_stdout_logs
    \/ stream_container_file_logs
    \/ stream_remote_container_stdout_logs
    \/ stream_remote_container_file_logs
    \/ next_chunk
    \/ log_generator
    \/ disconnect
    \/ drop_generator

\* ------------------------------------------------------- log stream claims
\* C3: once a log stream whose HTTP client disconnected is closed, its
\* connection handle (the SSH client, the local docker stream) has been
\* released, whether or not a first chunk had been produced.
C3_HandleReleasedOnDisconnect ==
    (log.state = "Closed" /\ ~log.connected) =>
        (log.client # "open" /\ log.handle # "open")

\* C4: a log-stream request goes Opening -> Streaming -> Closed (or fails
\* while opening), and a request that got an SSH client has closed it
\* exactly once when it is Closed.
C4_ClientClosedExactlyOnce ==
    /\ log.hist \in {<<>>, <<"Opening">>, <<"Opening", "Closed">>,
                     <<"Opening", "Streaming">>,
                     <<"Opening", "Streaming", "Closed">>}
    /\ log.closes <= 1
    /\ (log.state = "Closed" /\ log.client # "none") => log.closes = 1

\* The diagnostic chunks among those the generator yielded.
Diagnostics(l) == SelectSeq(l.yielded, LAMBDA c : c = Diagnostic)

\* C5: a source that raises after streaming began makes the relay yield
\* exactly one chunk, the diagnostic, as its last; the exception never
\* leaves the generator. Local and remote.
C5_SourceErrorIsOneDiagnosticChunk ==
    /\ log.gen # "raised"
    /\ log.errored =>
          /\ Len(Diagnostics(log)) = 1
          /\ log.yielded[Len(log.yielded)] = Diagnostic

\* C6: a log stream opened on a container that does not exist is answered
\* 404 and never streams; any other failure to open is answered 500.
C6_MissingContainerIs404 ==
    /\ (log.container = "missing" /\ log.state # "Opening") =>
          (log.status = 404 /\ log.hist = <<"Opening", "Closed">>)
    /\ (log.hist = <<"Opening", "Closed">> /\ log.container # "missing") =>
          log.status = 500

\* The chunks of the source that reached the HTTP client: what was sent,
\* without the relay's own diagnostic.
delivered(l) == SelectSeq(l.sent, LAMBDA c : c # Diagnostic)
NonEmpty(chunks) == SelectSeq(chunks, LAMBDA c : c # Empty)
IsPrefix(s, t) == Len(s) <= Len(t) /\ s = SubSeq(t, 1, Len(s))

\* C7: the chunks delivered to the HTTP client are, in order, the non-empty
\* chunks read from the source: all of them while the client is connected,
\* a prefix of them once it is gone; nothing reordered, repeated, dropped,
\* and no empty chunk sent.
C7_DeliveredAreTheNonEmptyChunks ==
    /\ IsPrefix(delivered(log), NonEmpty(log.read))
    /\ log.connected => delivered(log) = NonEmpty(log.read)
    /\ \A i \in 1..Len(log.sent) : log.sent[i] # Empty

\* A connected client got two different chunks around an empty one.
C7_EmptyChunkSkippedBetweenTwo ==
    /\ log.connected
    /\ log.read = <<"x", Empty, "y">>
    /\ log.sent = <<"x", "y">>


\* ================================== resource listing and control adapter
Targets == {"local", "remote"}
Kinds == {"container", "image", "volume"}
Ids == 1..NIds

\* What the tool says of a failed operation on an id that exists
\* (str(e) of the SDK's APIError, or the command's stderr).
ToolError == "tool error"
\* docker's stderr for an id it does not know.
NoSuch == "No such object"
ConnectFailed == "connection failed"

\* An error detail: f"{text} {id} ...: {cause}", and, when it is the str()
\* of an HTTPException the handler caught, that exception's status code.
Detail(text, i, cause) ==
    [text |-> text, id |-> i, cause |-> cause, wrapped |-> 0]
NoDetail == Detail("", 0, "")

NoResponse ==
    [endpoint |-> "none", target |-> "none", id |-> 0, status |-> 0,
     detail |-> NoDetail, body |-> <<>>,
     printed |-> <<>>,       \* the lines the listing command printed
     output |-> <<>>,        \* what `docker run -d` printed on stdout
     created |-> <<>>,       \* full id of the container the run created
     detach |-> FALSE,       \* the run was asked to detach
     existed |-> FALSE,      \* the id existed when the request was made
     exit_status |-> -1,     \* of the docker command; -1: none was run
     stderr |-> "",          \* of the docker command
     tool |-> ""]            \* diagnostic of a failed operation on an id
                             \* that exists

ControlInit ==
    /\ docker = [t \in Targets |-> [k \in Kinds |-> {}]]
    /\ resp = NoResponse

\* Outside the API: a container, image or volume comes to exist.
docker_create ==
    /\ \E t \in Targets, k \in Kinds, i \in Ids :
         /\ i \notin docker[t][k]
         /\ docker' = [docker EXCEPT ![t][k] = @ \cup {i}]
    /\ resp' = NoResponse
    /\ UNCHANGED <<fs, req, log, tmp>>

Request(ep, t, k, i) ==
    [NoResponse EXCEPT !.endpoint = ep, !.target = t, !.id = i,
                       !.existed = i \in docker[t][k]]

\* raise HTTPException(status_code=code, detail=detail)
Raise(q, code, detail) == [q EXCEPT !.status = code, !.detail = detail]

\* str(e) of a starlette HTTPException: "<status_code>: <detail>".
str_HTTPException(code, detail) == [detail EXCEPT !.wrapped = code]

\* ---------------------------------------------------------------- local
\* inspect_container: subprocess.run(['docker', 'inspect', id], check=True).
\* tool: "record" (exit 0, one record), "empty" (exit 0, "[]"), "nonzero"
\* (CalledProcessError), "oserror" (the command could not be run).
\*     except subprocess.CalledProcessError -> 404
\*     except Exception -> 500: it also catches the HTTPException(404) the
\*     try block raises for an empty list.
inspect_container_response(q, tool) ==
    CASE tool = "nonzero" ->
           Raise([q EXCEPT !.exit_status = 1, !.stderr = NoSuch], 404,
                 Detail("Container not found", q.id, NoSuch))
      [] tool = "empty" ->
           Raise([q EXCEPT !.exit_status = 0], 500,
                 str_HTTPException(
                     404, Detail("Container not found", q.id, "")))
      [] tool = "oserror" -> Raise(q, 500, Detail("", 0, ToolError))
      [] OTHER -> [q EXCEPT !.exit_status = 0, !.status = 200,
                            !.body = <<q.id>>]

\* What `docker inspect` can answer for an id.
InspectAnswers(existed) ==
    IF existed THEN {"record"} ELSE {"nonzero", "empty"}

inspect_container ==
    /\ \E i \in Ids :
         LET q == Request("inspect_container", "local", "container", i)
         IN  \E tool \in InspectAnswers(q.existed) \cup {"oserror"} :
                resp' = inspect_container_response(q, tool)
    /\ UNCHANGED <<docker, fs, req, log, tmp>>

\* get_docker_client(): docker.from_env() failing is a 500 raised before
\* the handler's try block.
get_docker_client(q) == Raise(q, 500, Detail("", 0, ConnectFailed))

\* The SDK handlers: client.containers.get(id) (docker.errors.NotFound ->
\* 404), the operation (any other exception -> 500 with str(e)), 200.
local_control(q, noun, connects, fails) ==
    IF ~connects THEN get_docker_client(q)
    ELSE IF ~q.existed THEN Raise(q, 404, Detail(noun, q.id, ""))
    ELSE IF fails
         THEN Raise([q EXCEPT !.tool = ToolError], 500,
                    Detail("", 0, ToolError))
         ELSE [q EXCEPT !.status = 200]

start_container ==
    /\ \E i \in Ids, connects \in BOOLEAN, fails \in BOOLEAN :
         resp' = local_control(
                     Request("start_container", "local", "container", i),
                     "Container not found", connects, fails)
    /\ UNCHANGED <<docker, fs, req, log, tmp>>

stop_container ==
    /\ \E i \in Ids, connects \in BOOLEAN, fails \in BOOLEAN :
         resp' = local_control(
                     Request("stop_container", "local", "container", i),
                     "Container not found", connects, fails)
    /\ UNCHANGED <<docker, fs, req, log, tmp>>

restart_container ==
    /\ \E i \in Ids, connects \in BOOLEAN, fails \in BOOLEAN :
         resp' = local_control(
                     Request("restart_container", "local", "container", i),
                     "Container not found", connects, fails)
    /\ UNCHANGED <<docker, fs, req, log, tmp>>

\* A remove that answered 200 removed the id from its control plane.
removed(q, t, k) ==
    IF q.status = 200 THEN [docker EXCEPT ![t][k] = @ \ {q.id}] ELSE docker

remove_container ==
    /\ \E i \in Ids, connects \in BOOLEAN, fails \in BOOLEAN :
         LET q == local_control(
                      Request("remove_container", "local", "container", i),
                      "Container not found", connects, fails)
         IN  /\ resp' = q
             /\ docker' = removed(q, "local", "container")
    /\ UNCHANGED <<fs, req, log, tmp>>

remove_image ==
    /\ \E i \in Ids, connects \in BOOLEAN, fails \in BOOLEAN :
         LET q == local_control(
                      Request("remove_image", "local", "image", i),
                      "Image not found", connects, fails)
         IN  /\ resp' = q
             /\ docker' = removed(q, "local", "image")
    /\ UNCHANGED <<fs, req, log, tmp>>

remove_volume ==
    /\ \E i \in Ids, connects \in BOOLEAN, fails \in BOOLEAN :
         LET q == local_control(
                      Request("remove_volume", "local", "volume", i),
                      "Volume not found", connects, fails)
         IN  /\ resp' = q
             /\ docker' = removed(q, "local", "volume")
    /\ UNCHANGED <<fs, req, log, tmp>>

\* --------------------------------------------------------------- remote
\* What a command run over SSH comes back with.
Ran(exit_status, stdout, stderr_) ==
    [exit_status |-> exit_status, stdout |-> stdout, stderr |-> stderr_]

\* The command ran: the request remembers its exit status and stderr.
ran(q, c) == [q EXCEPT !.exit_status = c.exit_status, !.stderr = c.stderr,
                       !.tool = IF q.existed /\ c.exit_status # 0
                                THEN c.stderr ELSE ""]

\* get_ssh_client(conn) failing: HTTPException(500) before the try block.
ssh_failed(q) == Raise(q, 500, Detail("", 0, ConnectFailed))

\* `docker <verb> <id>` on the remote host: docker exits non-zero for an
\* id it does not know, and may fail on one it knows.
RemoteCommand(q, fails) ==
    IF ~q.existed THEN Ran(1, <<>>, NoSuch)
    ELSE IF fails THEN Ran(1, <<>>, ToolError)
    ELSE Ran(0, <<q.id>>, "")

\* inspect_remote_container: both HTTPException(404) are raised inside the
\* try block whose `except Exception` turns everything into a 500 with
\* str(e).
inspect_remote_container_response(q, c) ==
    IF c.exit_status # 0
    THEN Raise(ran(q, c), 500,
               str_HTTPException(
                   404, Detail("Container not found", q.id, c.stderr)))
    ELSE IF c.stdout = <<>>
    THEN Raise(ran(q, c), 500,
               str_HTTPException(
                   404, Detail("Container not found", q.id, "")))
    ELSE [ran(q, c) EXCEPT !.status = 200, !.body = c.stdout]

inspect_remote_container ==
    /\ \E i \in Ids, connects \in BOOLEAN :
         LET q == Request("inspect_remote_container", "remote",
                          "container", i)
         IN  IF ~connects THEN resp' = ssh_failed(q)
             ELSE \E c \in {RemoteCommand(q, FALSE)} \cup
                            (IF q.existed THEN {} ELSE {Ran(0, <<>>, "")}) :
                     resp' = inspect_remote_container_response(q, c)
    /\ UNCHANGED <<docker, fs, req, log, tmp>>

\* start/stop/restart/rm/rmi/volume rm over SSH:
\*     if exit_status != 0: raise Exception(stderr)  ->  500, str(e)
remote_control(q, connects, fails) ==
    IF ~connects THEN ssh_failed(q)
    ELSE LET c == RemoteCommand(q, fails)
         IN  IF c.exit_status # 0
             THEN Raise(ran(q, c), 500, Detail("", 0, c.stderr))
             ELSE [ran(q, c) EXCEPT !.status = 200]

start_remote_container ==
    /\ \E i \in Ids, connects \in BOOLEAN, fails \in BOOLEAN :
         resp' = remote_control(
                     Request("start_remote_container", "remote",
                             "container", i), connects, fails)
    /\ UNCHANGED <<docker, fs, req, log, tmp>>

stop_remote_container ==
    /\ \E i \in Ids, connects \in BOOLEAN, fails \in BOOLEAN :
         resp' = remote_control(
                     Request("stop_remote_container", "remote",
                             "container", i), connects, fails)
    /\ UNCHANGED <<docker, fs, req, log, tmp>>

restart_remote_container ==
    /\ \E i \in Ids, connects \in BOOLEAN, fails \in BOOLEAN :
         resp' = remote_control(
                     Request("restart_remote_container", "remote",
                             "container", i), connects, fails)
    /\ UNCHANGED <<docker, fs, req, log, tmp>>

remove_remote_container ==
    /\ \E i \in Ids, connects \in BOOLEAN, fails \in BOOLEAN :
         LET q == remote_control(
                      Request("remove_remote_container", "remote",
                              "container", i), connects, fails)
         IN  /\ resp' = q
             /\ docker' = removed(q, "remote", "container")
    /\ UNCHANGED <<fs, req, log, tmp>>

remove_remote_image ==
    /\ \E i \in Ids, connects \in BOOLEAN, fails \in BOOLEAN :
         LET q == remote_control(
                      Request("remove_remote_image", "remote", "image", i),
                      connects, fails)
         IN  /\ resp' = q
             /\ docker' = removed(q, "remote", "image")
    /\ UNCHANGED <<fs, req, log, tmp>>

remove_remote_volume ==
    /\ \E i \in Ids, connects \in BOOLEAN, fails \in BOOLEAN :
         LET q == remote_control(
                      Request("remove_remote_volume", "remote", "volume", i),
                      connects, fails)
         IN  /\ resp' = q
             /\ docker' = removed(q, "remote", "volume")
    /\ UNCHANGED <<fs, req, log, tmp>>

\* ------------------------------------------------------- remote listings
\* A line of `docker ps|images|volume ls --format "{{json .}}"`: the JSON
\* record of one id, a blank line, or text that is not JSON. The Labels of
\* a container or volume are free text: a JSON record may carry U+0085
\* (NEL) in a string, which Go's JSON encoder prints unescaped.
Json(i) == [json |-> TRUE, ID |-> i, nel |-> FALSE]
JsonNel(i) == [json |-> TRUE, ID |-> i, nel |-> TRUE]
Blank == [json |-> FALSE, ID |-> 0, nel |-> FALSE]
NotJson == [json |-> FALSE, ID |-> -1, nel |-> FALSE]
Labelled(k) == k \in {"container", "volume"}
LinesOf(t, k) ==
    {Json(i) : i \in docker[t][k]}
        \cup (IF Labelled(k) THEN {JsonNel(i) : i \in docker[t][k]} ELSE {})
        \cup {Blank, NotJson}
Lines(k) == LinesOf("remote", k)

\* What the listing command can come back with: its lines and exit status
\* 0, or nothing on stdout, a diagnostic on stderr and a non-zero status.
Listings(k) ==
    {Ran(0, l, "") : l \in ListsUpTo(Lines(k), MaxLines)}
        \cup {Ran(1, <<>>, ToolError)}

\* for line in stdout: if not line.strip(): continue
\*                      data = json.loads(line); result.append({...})
\* The result, or that json.loads raised at a line that is not JSON.
RECURSIVE parse_lines(_, _)
parse_lines(lines, result) ==
    IF lines = <<>> THEN [raised |-> FALSE, result |-> result]
    ELSE IF Head(lines) = Blank THEN parse_lines(Tail(lines), result)
    ELSE IF ~Head(lines).json THEN [raised |-> TRUE, result |-> <<>>]
    ELSE parse_lines(Tail(lines), Append(result, Head(lines).ID))

\* The three remote list handlers never read the exit status:
\*     return {...: result}                       200
\*     except Exception: err = stderr.read()      500, detail = stderr text
remote_list(q, connects, c) ==
    IF ~connects THEN ssh_failed(q)
    ELSE LET parsed == parse_lines(c.stdout, <<>>)
             p == [ran(q, c) EXCEPT !.printed = c.stdout]
         IN  IF parsed.raised
             THEN Raise(p, 500, Detail("", 0, c.stderr))
             ELSE [p EXCEPT !.status = 200, !.body = parsed.result]

list_remote_running_containers ==
    /\ \E connects \in BOOLEAN, c \in Listings("container") :
         resp' = remote_list(
                     Request("list_remote_running_containers", "remote",
                             "container", 0), connects, c)
    /\ UNCHANGED <<docker, fs, req, log, tmp>>

list_remote_docker_images ==
    /\ \E connects \in BOOLEAN, c \in Listings("image") :
         resp' = remote_list(
                     Request("list_remote_docker_images", "remote",
                             "image", 0), connects, c)
    /\ UNCHANGED <<docker, fs, req, log, tmp>>

list_remote_docker_volumes ==
    /\ \E connects \in BOOLEAN, c \in Listings("volume") :
         resp' = remote_list(
                     Request("list_remote_docker_volumes", "remote",
                             "volume", 0), connects, c)
    /\ UNCHANGED <<docker, fs, req, log, tmp>>

\* ------------------------------------------------ run container from image
\* A container id is a string of characters, here numbers > 0 that differ
\* from place to place and from container to container; 0 is whitespace.
Space == 0
ContainerId(i, n) == [k \in 1..n |-> (i - 1) * MaxIdLen + k]

\* str.strip()
RECURSIVE lstrip(_)
lstrip(t) == IF t # <<>> /\ Head(t) = Space THEN lstrip(Tail(t)) ELSE t
RECURSIVE rstrip(_)
rstrip(t) ==
    IF t # <<>> /\ t[Len(t)] = Space
    THEN rstrip(SubSeq(t, 1, Len(t) - 1)) ELSE t
strip(t) == rstrip(lstrip(t))

\* The id as it is.
untruncated(t) == t

\* if len(container_id) > 12: container_id = container_id[:12]
truncate(t) == IF Len(t) > ShortIdLen THEN SubSeq(t, 1, ShortIdLen) ELSE t

\* docker-py Container.short_id: self.id[:12]
short_id(t) == SubSeq(t, 1, IF Len(t) < ShortIdLen THEN Len(t) ELSE ShortIdLen)

\* The run made container i on target t.
ran_container(t, i) == [docker EXCEPT ![t]["container"] = @ \cup {i}]

\* run_container_from_image: client.containers.run(image_name, detach=True,
\* name=name); ImageNotFound -> 404, any other exception -> 500.
run_container_from_image ==
    /\ \E img \in Ids, connects \in BOOLEAN, fails \in BOOLEAN,
          i \in Ids \ docker["local"]["container"], n \in 1..MaxIdLen :
         LET q == Request("run_container_from_image", "local", "image", img)
             d == [q EXCEPT !.detach = TRUE]
         IN  IF ~connects
             THEN resp' = get_docker_client(q) /\ UNCHANGED docker
             ELSE IF ~q.existed
             THEN /\ resp' = Raise(d, 404, Detail("Image not found", img, ""))
                  /\ UNCHANGED docker
             ELSE IF fails
             THEN /\ resp' = Raise([d EXCEPT !.tool = ToolError], 500,
                                   Detail("", 0, ToolError))
                  /\ UNCHANGED docker
             ELSE /\ resp' = [d EXCEPT !.status = 200,
                                       !.created = ContainerId(i, n),
                                       !.body = short_id(ContainerId(i, n))]
                  /\ docker' = ran_container("local", i)
    /\ UNCHANGED <<fs, req, log, tmp>>

\* What `docker run -d <image>` prints on success: the id of the new
\* container and a newline, after whitespace or not.
RunOutputs(i, n) ==
    { lead \o ContainerId(i, n) \o <<Space>> : lead \in {<<>>, <<Space>>} }

\* run_remote_container_from_image: exec_command('docker run -d ...'); a
\* non-zero exit status raises Exception(stderr) -> 500; else the id is
\* stdout.read().decode().strip(), cut to its first 12 characters.
run_remote_container_from_image ==
    /\ \E img \in Ids, connects \in BOOLEAN, fails \in BOOLEAN,
          i \in Ids \ docker["remote"]["container"], n \in 1..MaxIdLen :
         LET q == Request("run_remote_container_from_image", "remote",
                          "image", img)
             d == [q EXCEPT !.detach = TRUE]
             c == RemoteCommand(q, fails)
         IN  IF ~connects
             THEN resp' = ssh_failed(q) /\ UNCHANGED docker
             ELSE IF c.exit_status # 0
             THEN /\ resp' = Raise(ran(d, c), 500, Detail("", 0, c.stderr))
                  /\ UNCHANGED docker
             ELSE \E out \in RunOutputs(i, n) :
                    /\ resp' = [ran(d, c) EXCEPT
                                  !.status = 200,
                                  !.output = out,
                                  !.created = ContainerId(i, n),
                                  !.body = truncate(strip(out))]
                    /\ docker' = ran_container("remote", i)
    /\ UNCHANGED <<fs, req, log, tmp>>

\* -------------------------------------------------------- local listings
\* proc.stdout.splitlines(): str.splitlines breaks the text at every line
\* boundary Python knows, "\n" and also U+0085 among others, so the text
\* of a record that carries U+0085 comes back as two pieces, neither of
\* them JSON. (The remote handlers iterate the paramiko channel file, which
\* breaks at "\n" only.)
RECURSIVE splitlines(_)
splitlines(lines) ==
    IF lines = <<>> THEN <<>>
    ELSE (IF Head(lines).nel THEN <<NotJson, NotJson>> ELSE <<Head(lines)>>)
             \o splitlines(Tail(lines))

\* subprocess.run([...], capture_output=True, text=True, check=True) of the
\* local listing command: its lines with exit status 0, a non-zero exit
\* status (CalledProcessError), or no docker binary to run (OSError).
LocalListings(k) ==
    {Ran(0, l, "") : l \in ListsUpTo(LinesOf("local", k), MaxLines)}
        \cup {Ran(1, <<>>, ToolError), Ran(-1, <<>>, "")}

\* The three local list handlers:
\*     proc = subprocess.run(..., check=True)
\*     for line in proc.stdout.splitlines(): ... json.loads(line) ...
\*     return {...: result}                                   200
\*     except Exception as e: HTTPException(500, str(e))
local_list(q, c) ==
    LET p == [q EXCEPT !.exit_status = c.exit_status, !.stderr = c.stderr,
                       !.printed = c.stdout]
        parsed == parse_lines(splitlines(c.stdout), <<>>)
    IN  IF c.exit_status # 0 \/ parsed.raised
        THEN Raise(p, 500, Detail("", 0, ToolError))
        ELSE [p EXCEPT !.status = 200, !.body = parsed.result]

list_running_containers ==
    /\ \E c \in LocalListings("container") :
         resp' = local_list(Request("list_running_containers", "local",
                                    "container", 0), c)
    /\ UNCHANGED <<docker, fs, req, log, tmp>>

list_docker_images ==
    /\ \E c \in LocalListings("image") :
         resp' = local_list(Request("list_docker_images", "local",
                                    "image", 0), c)
    /\ UNCHANGED <<docker, fs, req, log, tmp>>

list_docker_volumes ==
    /\ \E c \in LocalListings("volume") :
         resp' = local_list(Request("list_docker_volumes", "local",
                                    "volume", 0), c)
    /\ UNCHANGED <<docker, fs, req, log, tmp>>

ControlNext ==
    \/ docker_create
    \/ inspect_container
    \/ start_container
    \/ stop_container
    \/ restart_container
    \/ remove_container
    \/ remove_image
    \/ remove_volume
    \/ inspect_remote_container
    \/ start_remote_container
    \/ stop_remote_container
    \/ restart_remote_container
    \/ remove_remote_container
    \/ remove_remote_image
    \/ remove_remote_volume
    \/ list_remote_running_containers
    \/ list_remote_docker_images
    \/ list_remote_docker_volumes
    \/ list_running_containers
    \/ list_docker_images
    \/ list_docker_volumes
    \/ run_container_from_image
    \/ run_remote_container_from_image

\* ------------------------------------------- listing and control claims
InspectEndpoints == {"inspect_container", "inspect_remote_container"}

\* C8: inspecting a container that does not exist is answered 404 with the
\* id in the detail, on the local and the remote target, whether the tool
\* exits non-zero or gives an empty list; never 500.
C8_InspectMissingIs404 ==
    (/\ resp.endpoint \in InspectEndpoints
     /\ ~resp.existed
     /\ resp.exit_status >= 0) =>
        (resp.status = 404 /\ resp.detail.id = resp.id)

ControlEndpoints ==
    {"start_container", "stop_container", "restart_container",
     "remove_container", "remove_image", "remove_volume",
     "start_remote_container", "stop_remote_container",
     "restart_remote_container", "remove_remote_container",
     "remove_remote_image", "remove_remote_volume"}

\* C9: start, stop, restart and remove of a container and remove of an
\* image or volume answer 404 for an id that does not exist (a second
\* remove included) and 500 with the tool's diagnostic for any other
\* failure of the tool.
C9_ControlMissingIs404 ==
    (/\ resp.endpoint \in ControlEndpoints
     /\ resp.detail.cause # ConnectFailed) =>
        /\ ~resp.existed => resp.status = 404
        /\ (resp.existed /\ resp.tool # "") =>
              (resp.status = 500 /\ resp.detail.cause = resp.tool)

\* C10: on the remote target a command that ended with a non-zero exit
\* status makes the request fail, never 200, with the command's stderr as
\* the error detail.
C10_NonZeroExitIsFailure ==
    (resp.target = "remote" /\ resp.exit_status > 0) =>
        (resp.status # 200 /\ resp.detail.cause = resp.stderr)

ListEndpoints ==
    {"list_running_containers", "list_docker_images", "list_docker_volumes",
     "list_remote_running_containers", "list_remote_docker_images",
     "list_remote_docker_volumes"}

\* The records a listing owes its caller: the id of every printed line
\* that is not blank, in the order printed.
RECURSIVE Records(_)
Records(lines) ==
    IF lines = <<>> THEN <<>>
    ELSE (IF Head(lines) = Blank THEN <<>> ELSE <<Head(lines).ID>>)
             \o Records(Tail(lines))

AllParse(lines) == \A n \in 1..Len(lines) : lines[n].json \/ lines[n] = Blank

\* The listing command ran and ended with exit status 0.
Listed ==
    /\ resp.endpoint \in ListEndpoints
    /\ resp.exit_status = 0

\* C11: a listing (local and remote) whose lines all parse answers 200
\* with one record per non-blank line, in the order printed (the empty list
\* for no lines); one whose output has a non-blank line that is not JSON
\* fails as a whole and gives no partial list.
C11_OneRecordPerNonBlankLine ==
    Listed =>
        IF AllParse(resp.printed)
        THEN resp.status = 200 /\ resp.body = Records(resp.printed)
        ELSE resp.status = 500 /\ resp.body = <<>>

RunEndpoints ==
    {"run_container_from_image", "run_remote_container_from_image"}

\* The first k characters of t, or all of t if it is shorter.
FirstChars(t, k) == SubSeq(t, 1, IF Len(t) < k THEN Len(t) ELSE k)

\* C15: running a container from an image asks for a detached container,
\* and on success returns an id of at most 12 characters, the start of the
\* new container's id; on the remote target that id is the first 12
\* characters of the stripped command output, and a run that failed (ended
\* with a non-zero exit status) returns no id.
C15_RunReturnsShortId ==
    resp.endpoint \in RunEndpoints =>
        /\ resp.status = 200 =>
              /\ resp.detach
              /\ resp.created # <<>>
              /\ Len(resp.body) <= 12
              /\ resp.body = FirstChars(resp.created, 12)
              /\ resp.target = "remote" =>
                    /\ resp.body = FirstChars(strip(resp.output), 12)
                    /\ \A k \in DOMAIN resp.body : resp.body[k] # Space
        /\ resp.status # 200 => (resp.body = <<>> /\ resp.created = <<>>)
        /\ resp.exit_status > 0 => resp.status = 500

\* A remote run answered with the 12 first characters of a longer id that
\* was printed after whitespace.
C15_LongIdCutToTwelve ==
    /\ resp.endpoint = "run_remote_container_from_image"
    /\ resp.status = 200
    /\ Len(resp.created) > 12
    /\ Head(resp.output) = Space
    /\ Len(resp.body) = 12

\* =================================================== cleanup_temp_files
\* What a path of the temp area can hold when cleanup_temp_files is called.
Entries ==
    {Absent, NewFile(1), NewDir(1), Locked(1),
     [NewFile(1) EXCEPT !.written = TRUE]}

NoCall(area) ==
    [area |-> area,      \* the temp area now
     before |-> area,    \* the temp area before the first call
     once |-> area,      \* the temp area after the first call
     paths |-> {},       \* the arguments of the call
     calls |-> 0,        \* calls made
     raised |-> FALSE]   \* a call raised

CleanupInit ==
    /\ ExportInit /\ LogInit /\ ControlInit
    /\ tmp \in { NoCall(area) : area \in [Paths -> Entries] }

\* cleanup_temp_files(*paths), paths being temp paths and None in any mix.
call_cleanup ==
    /\ tmp.calls = 0
    /\ \E paths \in SUBSET (Paths \cup {None}) :
         tmp' = [tmp EXCEPT !.area = cleanup_temp_files(tmp.area, paths),
                            !.once = cleanup_temp_files(tmp.area, paths),
                            !.paths = paths,
                            !.calls = 1,
                            !.raised = cleanup_raises(tmp.area, paths)]
    /\ UNCHANGED <<fs, req, log, docker, resp>>

\* The same call once more.
call_cleanup_again ==
    /\ tmp.calls = 1
    /\ ~tmp.raised
    /\ tmp' = [tmp EXCEPT !.area = cleanup_temp_files(tmp.area, tmp.paths),
                          !.calls = 2,
                          !.raised = cleanup_raises(tmp.area, tmp.paths)]
    /\ UNCHANGED <<fs, req, log, docker, resp>>

CleanupNext ==
    \/ call_cleanup
    \/ call_cleanup_again

\* C20: cleanup_temp_files raises nothing, and for any paths (None, paths
\* that do not exist, paths whose removal fails) every given path that held
\* a removable file holds nothing after the call, every other path holds
\* what it held, and a second call with the same paths changes nothing.
C20_CleanupIsTotalAndIdempotent ==
    /\ ~tmp.raised
    /\ tmp.calls >= 1 =>
          \A p \in Paths :
              IF p \in tmp.paths /\ tmp.before[p].kind = "file"
              THEN tmp.once[p].kind = "none"
              ELSE tmp.once[p] = tmp.before[p]
    /\ tmp.calls = 2 => tmp.area = tmp.once

\* Called twice with None, a file that was removed and a path whose removal
\* failed.
C20_CalledTwiceOnAMix ==
    /\ tmp.calls = 2
    /\ None \in tmp.paths
    /\ \E p \in tmp.paths \ {None} :
         tmp.before[p].kind = "file" /\ tmp.area[p].kind = "none"
    /\ \E p \in tmp.paths \ {None} :
         tmp.before[p].kind \in {"locked", "dir"} /\ tmp.area[p] = tmp.before[p]

\* ======================================================== specifications
Init ==
    /\ ExportInit /\ LogInit /\ ControlInit
    /\ tmp = NoCall([p \in Paths |-> Absent])

\* Export requests, two at a time, over one temp area.
ExportSpec == Init /\ [][ExportNext]_vars

\* One log-stream request, from open to closed.
LogSpec == Init /\ [][LogNext]_vars

\* Listing and control requests, one after another, on both targets.
ControlSpec == Init /\ [][ControlNext]_vars

\* cleanup_temp_files called twice with the same paths, on any temp area.
CleanupSpec == CleanupInit /\ [][CleanupNext]_vars

====
